---- MODULE Spec2Model ----
(***************************************************************************)
(* fingered: a Finger (RFC 1288) server.                                   *)
(*                                                                         *)
(* Byte strings are sequences of one-character strings; the byte 0xFF,     *)
(* which never occurs in valid UTF-8, is written "xFF".                    *)
(***************************************************************************)
EXTENDS Integers, Sequences, FiniteSets, TLC

\* --------------------------------------------------------------------------
\* Bounds of the model
\* --------------------------------------------------------------------------

\* connections the accept loop accepts in one run
MaxConns == 1

\* reload tasks the accept loop spawns in one run
MaxReloads == 1
\* the number of pieces a generated request line is made of, at most
MaxPieces == 4

\* the number of pieces a generated info text is made of, at most
MaxText == 3

\* connections the accept loop accepts in one run with slow clients
MaxSlow == 2

\* reload signals sent in one run in which the file is edited between them
MaxEdits == 2

\* --------------------------------------------------------------------------
\* Program constants
\* --------------------------------------------------------------------------

SANE_REQUEST_LENGTH == 1024

REPLY_NO_FORWARDING ==
    << "F","i","n","g","e","r"," ","f","o","r","w","a","r","d","i","n","g"," ",
       "s","e","r","v","i","c","e"," ","d","e","n","i","e","d","\r","\n" >>

REPLY_NO_LISTING ==
    << "F","i","n","g","e","r"," ","o","n","l","i","n","e"," ","u","s","e","r"," ",
       "l","i","s","t"," ","d","e","n","i","e","d","\r","\n" >>

REPLY_USER_NOT_FOUND ==
    << "U","s","e","r"," ","n","o","t"," ","f","o","u","n","d","\r","\n" >>

USERNAME_ALLOWED_CHARS ==
    { "-", ".", "0","1","2","3","4","5","6","7","8","9",
      "A","B","C","D","E","F","G","H","I","J","K","L","M",
      "N","O","P","Q","R","S","T","U","V","W","X","Y","Z", "_",
      "a","b","c","d","e","f","g","h","i","j","k","l","m",
      "n","o","p","q","r","s","t","u","v","w","x","y","z" }

\* --------------------------------------------------------------------------
\* Strings
\* --------------------------------------------------------------------------

CR == "\r"
LF == "\n"
CRLF == << CR, LF >>

\* Option<T>
None == [some |-> FALSE, v |-> << >>]
Some(x) == [some |-> TRUE, v |-> x]

Min(S) == CHOOSE i \in S : \A j \in S : i <= j

\* index of the first element of s that lies in P, or 0
Position(s, P) ==
    LET hits == { i \in 1..Len(s) : s[i] \in P }
    IN  IF hits = {} THEN 0 ELSE Min(hits)

\* length of the longest prefix of s made of elements of P
PrefixLen(s, P) ==
    LET miss == { i \in 1..Len(s) : s[i] \notin P }
    IN  IF miss = {} THEN Len(s) ELSE Min(miss) - 1

Take(s, n) == SubSeq(s, 1, n)
Drop(s, n) == SubSeq(s, n + 1, Len(s))

StartsWith(s, p) == Len(s) >= Len(p) /\ Take(s, Len(p)) = p
EndsWith(s, p) == Len(s) >= Len(p) /\ Drop(s, Len(s) - Len(p)) = p

\* n copies of the byte c
Repeat(c, n) == [i \in 1..n |-> c]

RECURSIVE Concat(_)
\* concatenation of a sequence of strings
Concat(ss) == IF ss = << >> THEN << >> ELSE Head(ss) \o Concat(Tail(ss))

\* std::str::from_utf8 on the bytes of the model's alphabet
from_utf8_ok(bytes) == Position(bytes, {"xFF"}) = 0

\* --------------------------------------------------------------------------
\* request.rs
\* --------------------------------------------------------------------------

Request(v, u, f) == [verbose |-> v, user |-> u, forwarding |-> f]

new_list(v) == Request(v, None, None)

POk(rest, out) == [ok |-> TRUE, rest |-> rest, out |-> out]
PErr == [ok |-> FALSE, rest |-> << >>, out |-> None]

\* tag("/W")
verbose(input) ==
    IF StartsWith(input, << "/", "W" >>) THEN POk(Drop(input, 2), TRUE) ELSE PErr

\* take_while1(|c| c == ' ')
space(input) ==
    LET n == PrefixLen(input, {" "})
    IN  IF n >= 1 THEN POk(Drop(input, n), TRUE) ELSE PErr

\* is_a(USERNAME_ALLOWED_CHARS)
is_a_username(input) ==
    LET n == PrefixLen(input, USERNAME_ALLOWED_CHARS)
    IN  IF n >= 1 THEN POk(Drop(input, n), Take(input, n)) ELSE PErr

\* nom's not_line_ending: everything up to the first "\r\n" or "\n"; a '\r'
\* that is not followed by '\n' is an error
not_line_ending(input) ==
    LET index == Position(input, {CR, LF})
    IN  IF index = 0 THEN POk(<< >>, input)
        ELSE IF input[index] = CR
             THEN IF StartsWith(Drop(input, index - 1), CRLF)
                  THEN POk(Drop(input, index - 1), Take(input, index - 1))
                  ELSE PErr
             ELSE POk(Drop(input, index - 1), Take(input, index - 1))

\* opt(recognize(preceded(tag("@"), not_line_ending)))
host_chain(input) ==
    IF StartsWith(input, << "@" >>)
    THEN LET r == not_line_ending(Drop(input, 1))
         IN  IF r.ok
             THEN POk(r.rest, Some(Take(input, Len(input) - Len(r.rest))))
             ELSE POk(input, None)
    ELSE POk(input, None)

\* an all_consuming that lets leftover input pass
all_consuming_lenient(r) == r

\* all_consuming(p): p's result, an error when input is left over
all_consuming(r) == IF r.ok /\ r.rest = << >> THEN r ELSE PErr

\* the second alternative of parse: [space] [username] [@host]
parse_query(input, v) ==
    LET sp == IF v THEN space(input) ELSE POk(input, TRUE)
    IN  IF ~sp.ok THEN PErr
        ELSE LET u  == is_a_username(sp.rest)
                 ur == IF u.ok THEN u.rest ELSE sp.rest
                 uo == IF u.ok THEN Some(u.out) ELSE None
                 h  == host_chain(ur)
             IN  POk(h.rest, Request(v, uo, h.out))

\* a parse whose second alternative is not wrapped in all_consuming
parse_second_unchecked(input) ==
    LET vr    == verbose(input)
        v     == vr.ok
        rest  == IF vr.ok THEN vr.rest ELSE input
        list  == all_consuming(IF rest = << >> THEN POk(<< >>, new_list(v)) ELSE PErr)
    IN  IF list.ok THEN list ELSE parse_query(rest, v)

\* opt(verbose), then alt of the two all_consuming alternatives
parse(input) ==
    LET vr    == verbose(input)
        v     == vr.ok
        rest  == IF vr.ok THEN vr.rest ELSE input
        list  == all_consuming(IF rest = << >> THEN POk(<< >>, new_list(v)) ELSE PErr)
    IN  IF list.ok THEN list ELSE all_consuming(parse_query(rest, v))

\* Request::from_str: "Ok", "Err", or "Unreachable" for the unreachable!() arm
from_str(input) ==
    IF ~EndsWith(input, CRLF)
    THEN [kind |-> "Err", req |-> new_list(FALSE)]
    ELSE LET r == parse(Take(input, Len(input) - 2))
         IN  IF ~r.ok THEN [kind |-> "Err", req |-> new_list(FALSE)]
             ELSE IF r.rest = << >> THEN [kind |-> "Ok", req |-> r.out]
             ELSE [kind |-> "Unreachable", req |-> r.out]

\* --------------------------------------------------------------------------
\* config.rs
\* --------------------------------------------------------------------------

User(fix, i, l, u) == [fix_crlf |-> fix, info |-> i, long_info |-> l, unlisted |-> u]

\* User::from_info
from_info(text) == User(TRUE, Some(text), None, FALSE)

\* an info() that does not fall back to long_info
info_only(user) == IF user.info.some THEN user.info.v ELSE << >>

\* User::info
info(user) ==
    IF user.info.some THEN user.info.v
    ELSE IF user.long_info.some THEN user.long_info.v
    ELSE << >>

\* User::long_info
long_info(user) ==
    IF user.long_info.some THEN user.long_info.v
    ELSE IF user.info.some THEN user.info.v
    ELSE << >>

RECURSIVE lines(_)
\* str::lines: split after each '\n'; a line loses its "\n" or "\r\n"; a final
\* line without '\n' is kept as it is
lines(str) ==
    IF str = << >> THEN << >>
    ELSE LET i == Position(str, {LF})
         IN  IF i = 0 THEN << str >>
             ELSE LET line == Take(str, i - 1)
                      bare == IF EndsWith(line, << CR >>)
                              THEN Take(line, Len(line) - 1) ELSE line
                  IN  << bare >> \o lines(Drop(str, i))

\* str.lines().flat_map(|line| [line, "\r\n"]).collect()
fix_str_crlf(str) ==
    LET ls == lines(str)
    IN  Concat([k \in 1..Len(ls) |-> ls[k] \o CRLF])

\* a fix that only appends CRLF
fix_string_crlf_append(string) == string \o CRLF

fix_string_crlf(string) ==
    LET i == Position(string, {LF})
    IN  IF i = 0 THEN string \o CRLF
        ELSE IF i = Len(string) /\ ~EndsWith(Take(string, i - 1), << CR >>)
             THEN Take(string, Len(string) - 1) \o CRLF
             ELSE fix_str_crlf(string)

fix_opt(o) == IF o.some THEN Some(fix_string_crlf(o.v)) ELSE o

\* User::fix_crlf
fix_crlf(user) ==
    IF user.fix_crlf
    THEN [user EXCEPT !.info = fix_opt(user.info), !.long_info = fix_opt(user.long_info)]
    ELSE user

\* An entry of the users table of a configuration file: a bare string, or a
\* record whose optional keys may be missing.
EntryString(text) ==
    [shape |-> "String", text |-> text, fix_crlf |-> None, info |-> None,
     long_info |-> None, unlisted |-> None]
EntryUser(fix, i, l, u) ==
    [shape |-> "User", text |-> << >>, fix_crlf |-> fix, info |-> i,
     long_info |-> l, unlisted |-> u]

\* serde defaults of User: fix-crlf true, unlisted false
decode_user(e) ==
    User(IF e.fix_crlf.some THEN e.fix_crlf.v ELSE TRUE, e.info, e.long_info,
         IF e.unlisted.some THEN e.unlisted.v ELSE FALSE)

\* deserialize_users: Either::String | Either::User, then fix_crlf
deserialize_users(table) ==
    [name \in DOMAIN table |->
        fix_crlf(IF table[name].shape = "String"
                 THEN from_info(table[name].text)
                 ELSE decode_user(table[name]))]

Users(index, users) == [enable_index |-> index, users |-> users]

\* Users::default
UsersDefault == Users(FALSE, << >>)

\* The contents of a configuration file: text that decodes to a table, text
\* that toml::from_str rejects, or no readable file at all.
FileToml(index, table) == [kind |-> "toml", enable_index |-> index, users |-> table]
FileMalformed == [kind |-> "malformed", enable_index |-> None, users |-> << >>]
FileUnreadable == [kind |-> "unreadable", enable_index |-> None, users |-> << >>]

\* tokio::fs::read_to_string / std::fs::read_to_string
read_to_string(f) ==
    IF f.kind = "unreadable" THEN [ok |-> FALSE, source |-> FileMalformed]
    ELSE [ok |-> TRUE, source |-> f]

\* toml::from_str::<Users>; enable-index defaults to true
toml_from_str(source) ==
    IF source.kind = "toml"
    THEN [ok |-> TRUE,
          users |-> Users(IF source.enable_index.some THEN source.enable_index.v ELSE TRUE,
                          deserialize_users(source.users))]
    ELSE [ok |-> FALSE, users |-> UsersDefault]

\* a lookup that does not find unlisted users
find_listed(users, name) ==
    IF name \in DOMAIN users.users /\ ~users.users[name].unlisted
    THEN Some(users.users[name]) ELSE None

\* Users::find
find(users, name) ==
    IF name \in DOMAIN users.users THEN Some(users.users[name]) ELSE None

\* --------------------------------------------------------------------------
\* The environment: configuration files and clients
\* --------------------------------------------------------------------------

NameAl  == << "a", "l" >>
NameBob == << "b", "o", "b" >>
NameEve == << "e", "v", "e" >>

SrcA ==
    FileToml(None,
        (NameBob :> EntryString(<< "H", "i", LF >>)) @@
        (NameEve :> EntryUser(None, None, Some(<< "L", LF, "M" >>), Some(TRUE))))

SrcB ==
    FileToml(Some(FALSE),
        (NameBob :> EntryUser(Some(FALSE), Some(<< "B" >>), Some(<< "B", "B", LF >>), None)))

SrcC ==
    FileToml(Some(TRUE),
        (NameAl  :> EntryString(<< "A", CR, LF, "Z" >>)) @@
        (NameBob :> EntryUser(None, Some(<< "s" >>), Some(<< "l", LF, LF >>), Some(FALSE))) @@
        (NameEve :> EntryUser(Some(TRUE), None, None, Some(TRUE))))

SrcEmpty == FileToml(Some(TRUE), << >>)

SrcD ==
    FileToml(Some(FALSE),
        (NameEve :> EntryUser(None, Some(<< "E" >>), Some(<< "E", "E" >>), Some(TRUE))))

\* what the configuration file of a daemon can hold
DaemonFiles == { SrcA, SrcB, FileMalformed, FileUnreadable }

\* what ./users.toml of an inetd child can hold
InetdFiles == { SrcA, SrcB, SrcC, SrcD, SrcEmpty, FileMalformed, FileUnreadable }

\* A client: the bytes it sends, how many of them the transport hands over
\* per read, and whether it closes its sending side after them.
Client(stream, chunk, eof) == [stream |-> stream, chunk |-> chunk, eof |-> eof]
NoClient == Client(<< >>, 0, FALSE)

DaemonClients ==
    { Client(NameBob \o CRLF, 8, TRUE),                  \* a user query
      Client(NameBob \o << LF >>, 8, TRUE) }            \* no CR

\* request lines, with and without a proper end
InetdLines ==
    { << >>,
      << "/", "W" >>,
      << "/", "W", " " >>,
      NameBob,
      NameEve,
      << "B", "o", "b" >>,
      << "z" >>,
      << "/", "W", " " >> \o NameBob,
      << "/", "W", " ", " " >> \o NameEve,
      << "/", "W" >> \o NameBob,
      << "/", "W", " " >> \o << "z" >>,
      NameBob \o << "@", "h" >>,
      << "@", "h" >>,
      << "/", "W", " ", "@", "h" >>,
      << "/", "W", " " >> \o NameBob \o << "@", "h" >>,
      << "z", "@", "h" >>,
      NameBob \o << " " >>,
      NameBob \o << "!" >>,
      << " " >> \o NameBob,
      NameBob \o << "xFF" >>,
      << "@", "h", CR, "x" >>,
      NameBob \o << CR >> }

InetdStreams ==
    { l \o CRLF : l \in InetdLines }
    \cup { NameBob \o << LF >>, NameBob, << >>, << LF >>,
           NameBob \o CRLF \o NameEve \o CRLF,
           << "xFF", CR, LF >>,
           Repeat("a", SANE_REQUEST_LENGTH - 2) \o CRLF,
           Repeat("a", SANE_REQUEST_LENGTH - 1) \o CRLF,
           Repeat("a", SANE_REQUEST_LENGTH) \o CRLF,
           Repeat("a", 2000) }

InetdClients ==
    { Client(s, n, e) : s \in InetdStreams, n \in {2, 700, 4096}, e \in BOOLEAN }

\* the orders in which a HashMap with the keys S can be iterated
Orders(S) ==
    { o \in [1..Cardinality(S) -> S] : \A i, j \in 1..Cardinality(S) : o[i] = o[j] => i = j }

TermSignals == { "SIGINT", "SIGQUIT", "SIGTERM" }
AllSignals == { "SIGHUP" } \cup TermSignals

\* the signals the environment of the model sends
SentSignals == { "SIGHUP", "SIGTERM" }

\* --------------------------------------------------------------------------
\* State
\* --------------------------------------------------------------------------

VARIABLES
    mode,       \* "daemon" (main_daemon) or "inetd" (main_inetd)
    main,       \* where the main task is
    proc,       \* "running" or "exited": the process and its runtime
    pending,    \* the signals delivered and not yet taken from the stream
    store,      \* Config.lock's value: the current Users
    writer,     \* the reload task holding Config.lock for writing, or 0
    lastSet,    \* the Users passed to the latest completed Config::set
    accepted,   \* the client accept() returned, until its handler is spawned
    conns,      \* the connection handlers, in the order they were started
    reloads,    \* the reload tasks, in the order they were spawned
    call        \* a library function called on its own: argument and result

vars == << mode, main, proc, pending, store, writer, lastSet, accepted,
           conns, reloads, call >>

server == << mode, main, proc, pending, store, writer, lastSet, accepted,
             conns, reloads >>

env == << pending >>
cfg == << store, writer, lastSet >>

\* no library function is called on its own
NoCall == [fn |-> "none", arg |-> << >>, done |-> FALSE, ret |-> << >>]

\* a call of fn(arg) that has not run yet; idle has the shape of a result
Call(fn, arg, idle) == [fn |-> fn, arg |-> arg, done |-> FALSE, ret |-> idle]

\* --------------------------------------------------------------------------
\* main.rs: handle_client
\* --------------------------------------------------------------------------

\* a cap that lets one byte too many through
TakeLimitOffByOne == SANE_REQUEST_LENGTH + 1

\* input.take(SANE_REQUEST_LENGTH)
TakeLimit == SANE_REQUEST_LENGTH

\* a handler that reads through to the store instead of using its snapshot
HandlerUsersReadThrough(c) == store

\* the users handle_client works on: the snapshot it was given
HandlerUsers(c) == conns[c].snapshot

\* a listing loop that forgets the unlisted flag
listing_all(users, order) == Concat([k \in 1..Len(order) |-> order[k] \o CRLF])

\* the listing loop: each name that is not unlisted, followed by CRLF
listing(users, order) ==
    Concat([k \in 1..Len(order) |->
              IF users.users[order[k]].unlisted THEN << >> ELSE order[k] \o CRLF])

\* a reply that looks the username up before it looks at the forwarding part
reply_lookup_first(users, req, order) ==
    IF req.user.some
    THEN LET user == find(users, req.user.v)
         IN  IF user.some
             THEN IF req.verbose THEN long_info(user.v) ELSE info(user.v)
             ELSE REPLY_USER_NOT_FOUND
    ELSE IF req.forwarding.some THEN REPLY_NO_FORWARDING
         ELSE IF users.enable_index THEN listing(users, order)
              ELSE REPLY_NO_LISTING

\* a reply that ignores the verbose flag of a user query
reply_short(users, req, order) ==
    IF req.forwarding.some THEN REPLY_NO_FORWARDING
    ELSE IF req.user.some
         THEN LET user == find(users, req.user.v)
              IN  IF user.some THEN info(user.v) ELSE REPLY_USER_NOT_FOUND
         ELSE IF users.enable_index THEN listing(users, order)
              ELSE REPLY_NO_LISTING

\* the reply handle_client puts into its BufWriter for a parsed request
reply(users, req, order) ==
    IF req.forwarding.some THEN REPLY_NO_FORWARDING
    ELSE IF req.user.some
         THEN LET user == find(users, req.user.v)
              IN  IF user.some
                  THEN IF req.verbose THEN long_info(user.v) ELSE info(user.v)
                  ELSE REPLY_USER_NOT_FOUND
         ELSE IF users.enable_index THEN listing(users, order)
              ELSE REPLY_NO_LISTING

\* a handler that answers an unparseable line as if it were a listing request
handle_request_lenient(users, buffer, order) ==
    LET r == from_str(buffer)
    IN  IF from_utf8_ok(buffer) /\ r.kind = "Ok"
        THEN [panic |-> FALSE, wbuf |-> reply(users, r.req, order)]
        ELSE [panic |-> FALSE, wbuf |-> reply(users, new_list(FALSE), order)]

\* from_utf8(..).unwrap(), Request::from_str(..).unwrap() and the writes
handle_request(users, buffer, order) ==
    IF ~from_utf8_ok(buffer) THEN [panic |-> TRUE, wbuf |-> << >>]
    ELSE LET r == from_str(buffer)
         IN  IF r.kind # "Ok" THEN [panic |-> TRUE, wbuf |-> << >>]
             ELSE [panic |-> FALSE, wbuf |-> reply(users, r.req, order)]

\* Config::get: a clone of the Arc in the lock
Config_get == store

\* Config::get: self.lock.read().await is granted at once when no write
\* guard is held (the accept loop is the only reader, so a writer never
\* queues behind a reader)
Config_get_ready == writer = 0

\* the task main_daemon spawns for an accepted client (or main_inetd's call);
\* raced records whether the store had been replaced when the reply was made
NewConn(client, users) ==
    [pc |-> "read", result |-> "pending", snapshot |-> users,
     stream |-> client.stream, chunk |-> client.chunk, eof |-> client.eof,
     consumed |-> 0, buffer |-> << >>, wbuf |-> << >>, output |-> << >>,
     raced |-> FALSE]

Live(c) == c \in DOMAIN conns /\ proc = "running" /\ conns[c].result = "pending"

\* handle_client ends as `result` with `out` on the wire; main_inetd unwraps
\* an Err, and a panic of the call is the panic of its main task
HandlerEnds(c, k, result, out) ==
    /\ conns' = [conns EXCEPT ![c] = [k EXCEPT !.pc = "done", !.result = result,
                                               !.output = out]]
    /\ main' = IF mode = "inetd"
               THEN (IF result = "ok" THEN "returned" ELSE "panicked_handler")
               ELSE main

\* lines 178-210, once read_until has returned Ok: decode, parse, and write
\* the reply into the BufWriter; k is the handler with its buffer filled
HandlerReply(c, k) ==
    \E order \in Orders(DOMAIN HandlerUsers(c).users) :
        LET h == handle_request(HandlerUsers(c), k.buffer, order)
        IN  IF h.panic
            THEN HandlerEnds(c, k, "panicked", << >>)
            ELSE /\ conns' = [conns EXCEPT ![c] =
                        [k EXCEPT !.pc = "flush", !.wbuf = h.wbuf,
                                  !.raced = (store # k.snapshot)]]
                 /\ UNCHANGED main

\* reader.read_until(b'\n', &mut buffer): one read of the underlying stream,
\* and, when that ends the line, the rest of handle_client up to the flush
HandlerRead(c) ==
    /\ Live(c) /\ conns[c].pc = "read"
    /\ LET k     == conns[c]
           limit == TakeLimit - k.consumed
           avail == Len(k.stream) - k.consumed
       IN  IF limit <= 0 \/ (avail = 0 /\ k.eof)
           THEN HandlerReply(c, k)
           ELSE /\ avail > 0
                /\ LET n    == Min({k.chunk, avail, limit})
                       data == SubSeq(k.stream, k.consumed + 1, k.consumed + n)
                       i    == Position(data, {LF})
                       got  == [k EXCEPT
                                  !.consumed = k.consumed + n,
                                  !.buffer = k.buffer \o (IF i = 0 THEN data ELSE Take(data, i))]
                   IN  IF i = 0
                       THEN conns' = [conns EXCEPT ![c] = got] /\ UNCHANGED main
                       ELSE HandlerReply(c, got)
    /\ UNCHANGED << call, mode, proc, env, cfg, accepted, reloads >>

\* read_until fails (the connection is reset): handle_client returns Err
HandlerReadError(c) ==
    /\ Live(c) /\ conns[c].pc = "read"
    /\ HandlerEnds(c, conns[c], "io_error", << >>)
    /\ UNCHANGED << call, mode, proc, env, cfg, accepted, reloads >>

\* writer.flush().await succeeds
HandlerFlush(c) ==
    /\ Live(c) /\ conns[c].pc = "flush"
    /\ HandlerEnds(c, conns[c], "ok", conns[c].wbuf)
    /\ UNCHANGED << call, mode, proc, env, cfg, accepted, reloads >>

\* writer.flush().await.unwrap() fails after part of the reply went out
HandlerFlushError(c) ==
    /\ Live(c) /\ conns[c].pc = "flush"
    /\ HandlerEnds(c, conns[c], "panicked", Take(conns[c].wbuf, Len(conns[c].wbuf) \div 2))
    /\ UNCHANGED << call, mode, proc, env, cfg, accepted, reloads >>

\* --------------------------------------------------------------------------
\* main.rs: reload_config, and config.rs: Config::load / Config::set
\* --------------------------------------------------------------------------

\* source is what read_to_string returned to the task
NewReload == [pc |-> "read", result |-> "pending", source |-> FileUnreadable]

LiveReload(r) == r \in DOMAIN reloads /\ proc = "running" /\ reloads[r].result = "pending"

\* a load that installs the default Users when the text does not decode
Config_load_or_default(source) ==
    [ok |-> TRUE, users |-> toml_from_str(source).users]

\* Config::load up to Config::set: the Users to install, or the decode
\* error that `?` returns before Config::set is called
Config_load(source) == toml_from_str(source)

\* a set that leaves the lock's value as it was
Config_set_lost(old, users) == old

\* Config::set: the value of the lock after the assignment
Config_set(old, users) == users

\* read_to_string(config_file_path), then Config::load's toml::from_str
\* of the file, which holds f at that moment
ReloadRead(r, f) ==
    /\ LiveReload(r) /\ reloads[r].pc = "read"
    /\ LET rs == read_to_string(f)
           d  == Config_load(rs.source)
       IN  reloads' = [reloads EXCEPT ![r] =
               IF ~rs.ok THEN [@ EXCEPT !.pc = "done", !.result = "failed_read"]
               ELSE IF ~d.ok
                    THEN [@ EXCEPT !.pc = "done", !.result = "failed_decode",
                                   !.source = rs.source]
                    ELSE [@ EXCEPT !.pc = "lock", !.source = rs.source]]
    /\ UNCHANGED << call, mode, main, proc, env, cfg, accepted, conns >>

\* Config::set: self.lock.write().await is granted
ReloadLock(r) ==
    /\ LiveReload(r) /\ reloads[r].pc = "lock"
    /\ writer = 0
    /\ writer' = r
    /\ reloads' = [reloads EXCEPT ![r].pc = "set"]
    /\ UNCHANGED << call, mode, main, proc, env, store, lastSet, accepted, conns >>

\* Config::set: the new Arc is stored and the write guard dropped
ReloadSet(r) ==
    /\ LiveReload(r) /\ reloads[r].pc = "set"
    /\ LET users == Config_load(reloads[r].source).users
       IN  /\ store' = Config_set(store, users)
           /\ lastSet' = Some(users)
    /\ writer' = 0
    /\ reloads' = [reloads EXCEPT ![r].pc = "done", ![r].result = "ok"]
    /\ UNCHANGED << call, mode, main, proc, env, accepted, conns >>

\* --------------------------------------------------------------------------
\* main.rs: main_daemon
\* --------------------------------------------------------------------------

\* a loop that does not poll accept while a handler is unfinished
AcceptPolledWhenIdle ==
    pending = {} /\ \A c \in DOMAIN conns : conns[c].result # "pending"

\* select! { biased; ... }: the accept branch is polled only when the signal
\* stream has nothing ready
AcceptPolled == pending = {}

\* SIGINT | SIGQUIT | SIGTERM => break
MainShutdown(s) ==
    /\ mode = "daemon" /\ proc = "running" /\ main = "select"
    /\ s \in pending /\ s \in TermSignals
    /\ pending' = pending \ {s}
    /\ main' = "stopped"
    /\ UNCHANGED << call, mode, proc, cfg, accepted, conns, reloads >>

\* SIGHUP => spawn(reload_config(..)); continue
MainReload ==
    /\ mode = "daemon" /\ proc = "running" /\ main = "select"
    /\ "SIGHUP" \in pending
    /\ pending' = pending \ {"SIGHUP"}
    /\ reloads' = Append(reloads, NewReload)
    /\ UNCHANGED << call, mode, main, proc, cfg, accepted, conns >>

\* accepted = server.accept() => accepted.unwrap(), with Ok
MainAccept(client) ==
    /\ mode = "daemon" /\ proc = "running" /\ main = "select"
    /\ AcceptPolled
    /\ accepted' = client
    /\ main' = "get"
    /\ UNCHANGED << call, mode, proc, env, cfg, conns, reloads >>

\* accepted = server.accept() => accepted.unwrap(), with Err
MainAcceptError ==
    /\ mode = "daemon" /\ proc = "running" /\ main = "select"
    /\ AcceptPolled
    /\ main' = "panicked_accept"
    /\ UNCHANGED << call, mode, proc, env, cfg, accepted, conns, reloads >>

\* let config = config.get().await; tokio::task::spawn(..handle_client..)
MainGet ==
    /\ mode = "daemon" /\ proc = "running" /\ main = "get"
    /\ Config_get_ready
    /\ conns' = Append(conns, NewConn(accepted, Config_get))
    /\ accepted' = NoClient
    /\ main' = "select"
    /\ UNCHANGED << call, mode, proc, env, cfg, reloads >>

\* --------------------------------------------------------------------------
\* main.rs: main_inetd
\* --------------------------------------------------------------------------

\* read ./users.toml, which holds f, decode it, and call handle_client on
\* stdin/stdout
InetdLoad(f) ==
    /\ mode = "inetd" /\ proc = "running" /\ main = "inetd_load"
    /\ LET rs == read_to_string(f)
           d  == toml_from_str(rs.source)
       IN  IF rs.ok /\ d.ok
           THEN /\ store' = d.users
                /\ conns' = << NewConn(accepted, d.users) >>
                /\ main' = "inetd_handle"
           ELSE /\ main' = "panicked_config"
                /\ UNCHANGED << store, conns >>
    /\ UNCHANGED << call, mode, proc, env, writer, lastSet, accepted, reloads >>

\* --------------------------------------------------------------------------
\* main.rs: main, and the process around it
\* --------------------------------------------------------------------------

MainOver == main \in { "stopped", "returned", "panicked_accept", "panicked_handler",
                       "panicked_config" }

\* a task that is being polled, not waiting at an await
MidPoll == \E r \in DOMAIN reloads : reloads[r].result = "pending" /\ reloads[r].pc = "set"

\* the outcome of a task that is still pending when the runtime is dropped
Dropped(task) == IF task.result = "pending" THEN [task EXCEPT !.result = "cancelled"] ELSE task

\* main returns (or unwinds): #[tokio::main] drops the runtime, which drops
\* every task that has not finished, and the process ends
ProcessExit ==
    /\ proc = "running" /\ MainOver
    /\ ~MidPoll
    /\ proc' = "exited"
    /\ conns' = [c \in DOMAIN conns |-> Dropped(conns[c])]
    /\ reloads' = [r \in DOMAIN reloads |-> Dropped(reloads[r])]
    /\ UNCHANGED << call, mode, main, env, cfg, accepted >>

\* --------------------------------------------------------------------------
\* The environment's steps
\* --------------------------------------------------------------------------

\* SIGHUP is delivered to the process
Hangup ==
    /\ mode = "daemon" /\ proc = "running"
    /\ "SIGHUP" \notin pending
    /\ pending' = pending \cup {"SIGHUP"}
    /\ UNCHANGED << call, mode, main, proc, cfg, accepted, conns, reloads >>

\* a termination signal is delivered to the process
Terminate(s) ==
    /\ mode = "daemon" /\ proc = "running" /\ main \in { "select", "get" }
    /\ s \in TermSignals
    /\ pending \cap TermSignals = {}
    /\ pending' = pending \cup {s}
    /\ UNCHANGED << call, mode, main, proc, cfg, accepted, conns, reloads >>

\* --------------------------------------------------------------------------
\* Specifications
\* --------------------------------------------------------------------------

\* main_daemon, entering its loop: the file decoded at startup is in the store
Init ==
    /\ mode = "daemon" /\ main = "select" /\ proc = "running"
    /\ pending = {}
    /\ store = toml_from_str(read_to_string(SrcA).source).users
    /\ writer = 0 /\ lastSet = None
    /\ accepted = NoClient
    /\ conns = << >> /\ reloads = << >>
    /\ call = NoCall

Next ==
    \/ Len(reloads) < MaxReloads /\ Hangup
    \/ \E s \in SentSignals : Terminate(s)
    \/ \E s \in TermSignals : MainShutdown(s)
    \/ MainReload
    \/ \E client \in DaemonClients : Len(conns) < MaxConns /\ MainAccept(client)
    \/ MainAcceptError
    \/ MainGet
    \/ \E c \in 1..MaxConns : HandlerRead(c)
    \/ \E c \in 1..MaxConns : HandlerReadError(c)
    \/ \E c \in 1..MaxConns : HandlerFlush(c)
    \/ \E c \in 1..MaxConns : HandlerFlushError(c)
    \/ \E r \in 1..MaxReloads, f \in DaemonFiles : ReloadRead(r, f)
    \/ \E r \in 1..MaxReloads : ReloadLock(r)
    \/ \E r \in 1..MaxReloads : ReloadSet(r)
    \/ ProcessExit

Spec == Init /\ [][Next]_vars

\* main_inetd, about to read ./users.toml, with a client on stdin
InitInetd ==
    /\ mode = "inetd" /\ main = "inetd_load" /\ proc = "running"
    /\ pending = {}
    /\ store = UsersDefault
    /\ writer = 0 /\ lastSet = None
    /\ accepted \in InetdClients
    /\ conns = << >> /\ reloads = << >>
    /\ call = NoCall

NextInetd ==
    \/ \E f \in InetdFiles : InetdLoad(f)
    \/ HandlerRead(1)
    \/ HandlerReadError(1)
    \/ HandlerFlush(1)
    \/ HandlerFlushError(1)
    \/ ProcessExit

SpecInetd == InitInetd /\ [][NextInetd]_vars

\* clients of a daemon that is never told to reload: one that sends a query
\* and closes, one that sends three bytes without a '\n' and keeps the
\* connection open, one that sends 1024 bytes without a '\n' and keeps it open
SlowClients ==
    { Client(NameBob \o CRLF, 8, TRUE),
      Client(NameBob, 8, FALSE),
      Client(Repeat("a", SANE_REQUEST_LENGTH), 4096, FALSE) }

NextSlow ==
    \/ Terminate("SIGTERM")
    \/ \E s \in TermSignals : MainShutdown(s)
    \/ \E client \in SlowClients : Len(conns) < MaxSlow /\ MainAccept(client)
    \/ MainAcceptError
    \/ MainGet
    \/ \E c \in 1..MaxSlow : HandlerRead(c)
    \/ \E c \in 1..MaxSlow : HandlerReadError(c)
    \/ \E c \in 1..MaxSlow : HandlerFlush(c)
    \/ \E c \in 1..MaxSlow : HandlerFlushError(c)
    \/ ProcessExit

\* read_until can return: the take is used up, or bytes are there, or the
\* client has closed its side (the states in which HandlerRead(c) is enabled)
ReadReady(c) ==
    /\ Live(c) /\ conns[c].pc = "read"
    /\ \/ conns[c].consumed >= TakeLimit
       \/ conns[c].consumed < Len(conns[c].stream)
       \/ conns[c].eof

\* the runtime polls every spawned task that can make progress: a handler
\* whose read can return is resumed (weak fairness of HandlerRead(c), with
\* its enabling condition written out), and so is one whose flush can
\* complete
FairHandlers ==
    \A c \in 1..MaxSlow :
        /\ []<>(~ReadReady(c)) \/ []<><<HandlerRead(c)>>_vars
        /\ WF_vars(HandlerFlush(c))

SpecSlow == Init /\ [][NextSlow]_vars /\ FairHandlers

\* the SIGHUPs delivered so far
Hangups == Len(reloads) + (IF "SIGHUP" \in pending THEN 1 ELSE 0)

\* the configuration file of a daemon whose file is edited before each SIGHUP
\* after the first: the startup contents up to the second signal, then the
\* other contents, and so on in turn
EditedFile == IF Hangups % 2 = 0 /\ Hangups > 0 THEN SrcB ELSE SrcA

\* a daemon without clients, told to reload again after its file was edited
NextEdits ==
    \/ Hangups < MaxEdits /\ Hangup
    \/ Terminate("SIGTERM")
    \/ \E s \in TermSignals : MainShutdown(s)
    \/ MainReload
    \/ \E r \in 1..MaxEdits : ReloadRead(r, EditedFile)
    \/ \E r \in 1..MaxEdits : ReloadLock(r)
    \/ \E r \in 1..MaxEdits : ReloadSet(r)
    \/ ProcessExit

SpecEdits == Init /\ [][NextEdits]_vars

\* the server part of the state when a library function is called on its own
NoServer ==
    /\ mode = "lib" /\ main = "none" /\ proc = "running"
    /\ pending = {}
    /\ store = UsersDefault
    /\ writer = 0 /\ lastSet = None
    /\ accepted = NoClient
    /\ conns = << >> /\ reloads = << >>

\* the strings made of at most n of the pieces
Strings(pieces, n) ==
    UNION { { Concat(t) : t \in [1..m -> pieces] } : m \in 0..n }

\* what request lines are made of: the flag, a letter of the flag, a space,
\* a name character, the forwarding mark, the two line-break bytes and a
\* character that is allowed nowhere before the mark
LinePieces ==
    { << "/", "W" >>, << "W" >>, << " " >>, << "b" >>, << "@" >>,
      << CR >>, << LF >>, << "!" >> }

LineEnds == { CRLF, << LF >>, << >> }

\* the arguments Request::from_str is called with: lines of at most n pieces
ParseInputs(n) == { l \o e : l \in Strings(LinePieces, n), e \in LineEnds }

NotParsed == [kind |-> "Pending", req |-> new_list(FALSE)]

\* Request::from_str is about to be called on some input
InitParse ==
    /\ NoServer
    /\ call \in { Call("from_str", a, NotParsed) : a \in ParseInputs(MaxPieces) }

\* Request::from_str(input) returns
CallFromStr ==
    /\ call.fn = "from_str" /\ ~call.done
    /\ call' = [call EXCEPT !.done = TRUE, !.ret = from_str(call.arg)]
    /\ UNCHANGED server

NextParse == CallFromStr

SpecParse == InitParse /\ [][NextParse]_vars

\* what info texts are made of: a character and the two line-break bytes
TextPieces == { << "a" >>, << CR >>, << LF >> }

\* the info texts of at most n pieces
Texts(n) == Strings(TextPieces, n)

OptTexts(n) == { None } \cup { Some(t) : t \in Texts(n) }

\* the entries of a users table: the bare-string shorthand, and the record
\* with fix-crlf true, false or left out
Entries(n) ==
    { EntryString(t) : t \in Texts(n) }
    \cup { EntryUser(f, i, l, None) :
              f \in { None, Some(TRUE), Some(FALSE) },
              i \in OptTexts(n), l \in OptTexts(n) }

\* the configuration texts toml::from_str is called with
DecodeInputs(n) ==
    { FileToml(None, NameBob :> e) : e \in Entries(n) } \cup { FileMalformed }

NotDecoded == [ok |-> FALSE, users |-> UsersDefault]

\* toml::from_str::<Users> is about to be called on some configuration text
InitDecode ==
    /\ NoServer
    /\ call \in { Call("toml_from_str", a, NotDecoded) : a \in DecodeInputs(MaxText) }

\* toml::from_str::<Users>(source) returns
CallTomlFromStr ==
    /\ call.fn = "toml_from_str" /\ ~call.done
    /\ call' = [call EXCEPT !.done = TRUE, !.ret = toml_from_str(call.arg)]
    /\ UNCHANGED server

NextDecode == CallTomlFromStr

SpecDecode == InitDecode /\ [][NextDecode]_vars

\* --------------------------------------------------------------------------
\* Properties
\* --------------------------------------------------------------------------

Running == main \in { "select", "get" }

\* the request a handler parsed from its buffer
ReqOf(k) == from_str(k.buffer).req

\* the handler completed the exchange: its reply was written and flushed
Replied(k) == k.result = "ok"

\* C1: after a termination signal has stopped the accept loop, no connection
\* handler and no reload task that was already spawned is cancelled: each
\* ends by its own completion or its own error.
C1_InFlightTasksNotCancelled ==
    main = "stopped" =>
        /\ \A c \in DOMAIN conns : conns[c].result # "cancelled"
        /\ \A r \in DOMAIN reloads : reloads[r].result # "cancelled"

\* C2: the reply a handler flushes is a reply to its request computed from
\* the directory Config::get returned when its connection was accepted,
\* whatever reloads have replaced the store since.
C2_SnapshotIsolation ==
    \A c \in DOMAIN conns :
        Replied(conns[c]) =>
            \E order \in Orders(DOMAIN conns[c].snapshot.users) :
                conns[c].output = reply(conns[c].snapshot, ReqOf(conns[c]), order)

\* a handler replied from its snapshot after a reload had replaced the store
\* by a directory that answers its request differently
C2_Witness ==
    \E c \in DOMAIN conns :
        /\ Replied(conns[c]) /\ conns[c].raced
        /\ \A order \in Orders(DOMAIN store.users) :
               conns[c].output # reply(store, ReqOf(conns[c]), order)

\* the file a reload task read was unreadable or does not decode
BadSource(src) == src.kind # "toml"

\* C3: no step of a reload task whose file could not be read or decoded
\* changes the store (so every later Config::get returns the directory that
\* was current before it), and the accept loop stays where it is.
C3_FailedReloadKeepsStore ==
    [][\A r \in DOMAIN reloads :
          (reloads'[r] # reloads[r] /\ BadSource(reloads'[r].source)) =>
              (store' = store /\ main' = main)]_vars

\* a reload has failed to decode its file, the loop is still running, and a
\* connection accepted since was given the directory from before the reload
C3_Witness ==
    /\ \E r \in DOMAIN reloads : reloads[r].result = "failed_decode"
    /\ Running /\ proc = "running"
    /\ \E c \in DOMAIN conns : conns[c].snapshot = store

\* C4: once a Config::set has completed, a connection accepted afterwards is
\* given the directory that the latest completed Config::set installed.
C4_ReloadVisible ==
    [][(Len(conns') > Len(conns) /\ lastSet.some) =>
          conns'[Len(conns')].snapshot = lastSet.v]_vars

\* a connection was accepted after a reload installed the directory of SrcB
C4_Witness ==
    \E c \in DOMAIN conns :
        /\ lastSet.some
        /\ conns[c].snapshot = toml_from_str(SrcB).users
        /\ conns[c].snapshot = lastSet.v

\* C5: the accept loop leaves Running only by taking a termination signal
\* from the signal stream.
C5_StopsOnlyOnSignal ==
    [][(Running /\ ~Running') =>
          \E s \in TermSignals : s \in pending /\ s \notin pending']_vars

\* the bytes are a request line handle_client accepts
ValidLine(bytes) == from_utf8_ok(bytes) /\ from_str(bytes).kind = "Ok"

\* C6: no bytes a client sends make the server process panic: the process
\* is never brought down by a handler that panicked on the line it read.
C6_NoClientCrash ==
    ~ /\ main = "panicked_handler"
      /\ \E c \in DOMAIN conns :
            conns[c].result = "panicked" /\ ~ValidLine(conns[c].buffer)

\* C7: a handler whose bytes are not a valid request line writes nothing to
\* its connection.
C7_NoReplyToMalformed ==
    \A c \in DOMAIN conns : ~ValidLine(conns[c].buffer) => conns[c].output = << >>

\* a handler read SANE_REQUEST_LENGTH bytes without a terminator and ended
\* with nothing written
C7_Witness ==
    \E c \in DOMAIN conns :
        /\ conns[c].pc = "done" /\ conns[c].result = "panicked"
        /\ Len(conns[c].buffer) = SANE_REQUEST_LENGTH
        /\ Position(conns[c].buffer, {LF}) = 0
        /\ conns[c].output = << >>

\* what C8 says of one handler in one state
C8_Bounded(k) ==
    LET F == Position(k.stream, {LF})
    IN  /\ k.consumed <= 1024
        /\ (k.pc # "read" /\ k.result # "io_error") =>
              IF F >= 1 /\ F <= 1024
              THEN k.buffer = Take(k.stream, F)
              ELSE /\ k.buffer = Take(k.stream, Min({Len(k.stream), 1024}))
                   /\ Position(k.buffer, {LF}) = 0
                   /\ k.result = "panicked"

\* C8: a handler takes at most 1024 bytes from its connection; once it has
\* stopped reading, its line is the stream up to and including the first
\* '\n' when that is among the first 1024 bytes, and otherwise the first 1024
\* bytes (or the whole shorter stream) without a terminator, which fails; and
\* it takes no byte after it has stopped reading.
C8_ReadCap ==
    /\ [](\A c \in DOMAIN conns : C8_Bounded(conns[c]))
    /\ [][\A c \in DOMAIN conns :
             conns[c].pc # "read" => conns'[c].consumed = conns[c].consumed]_vars

\* a handler whose client's '\n' is byte 1025 stopped after 1024 bytes and
\* failed
C8_Witness ==
    \E c \in DOMAIN conns :
        /\ conns[c].pc = "done"
        /\ Position(conns[c].stream, {LF}) = 1025
        /\ conns[c].consumed = 1024
        /\ Len(conns[c].buffer) = 1024
        /\ conns[c].result = "panicked"

TextUserNotFound ==
    << "U","s","e","r"," ","n","o","t"," ","f","o","u","n","d", CR, LF >>

TextListDenied ==
    << "F","i","n","g","e","r"," ","o","n","l","i","n","e"," ","u","s","e","r"," ",
       "l","i","s","t"," ","d","e","n","i","e","d", CR, LF >>

\* C9: the reply to a request with a username and no forwarding is the
\* user's info() without the verbose flag, the user's long_info() with it,
\* and "User not found\r\n" when the name is no key of the snapshot.
C9_UserReply ==
    \A c \in DOMAIN conns :
        LET k == conns[c]
            q == ReqOf(k)
        IN  (Replied(k) /\ q.user.some /\ ~q.forwarding.some) =>
                k.output =
                    IF q.user.v \in DOMAIN k.snapshot.users
                    THEN IF q.verbose THEN long_info(k.snapshot.users[q.user.v])
                         ELSE info(k.snapshot.users[q.user.v])
                    ELSE TextUserNotFound

\* a verbose query of a user whose two texts differ was answered with the
\* long one
C9_Witness ==
    \E c \in DOMAIN conns :
        LET k == conns[c]
            q == ReqOf(k)
        IN  /\ Replied(k) /\ q.user.some /\ ~q.forwarding.some /\ q.verbose
            /\ q.user.v \in DOMAIN k.snapshot.users
            /\ k.output = long_info(k.snapshot.users[q.user.v])
            /\ k.output # info(k.snapshot.users[q.user.v])

\* the names of a directory that a listing shows
Listed(users) == { n \in DOMAIN users.users : ~users.users[n].unlisted }

\* C10: the reply to a request with no username and no forwarding is the
\* denial text when enable_index is false, and otherwise the names that are
\* not unlisted, each once and each followed by CRLF, in some order.
C10_Listing ==
    \A c \in DOMAIN conns :
        LET k == conns[c]
            q == ReqOf(k)
        IN  (Replied(k) /\ ~q.user.some /\ ~q.forwarding.some) =>
                IF k.snapshot.enable_index
                THEN \E o \in Orders(Listed(k.snapshot)) :
                        k.output = Concat([i \in 1..Len(o) |-> o[i] \o CRLF])
                ELSE k.output = TextListDenied

\* a listing of a directory with an unlisted user and two listed ones
C10_Witness ==
    \E c \in DOMAIN conns :
        LET k == conns[c]
            q == ReqOf(k)
        IN  /\ Replied(k) /\ ~q.user.some /\ ~q.forwarding.some
            /\ k.snapshot.enable_index
            /\ Cardinality(Listed(k.snapshot)) = 2
            /\ Listed(k.snapshot) # DOMAIN k.snapshot.users
            /\ Len(k.output) > 0

TextForwardDenied ==
    << "F","i","n","g","e","r"," ","f","o","r","w","a","r","d","i","n","g"," ",
       "s","e","r","v","i","c","e"," ","d","e","n","i","e","d", CR, LF >>

\* the handler went past its read with a request that has a forwarding part
Forwarded(k) ==
    k.pc # "read" /\ ValidLine(k.buffer) /\ ReqOf(k).forwarding.some

AllIn(s, P) == \A i \in 1..Len(s) : s[i] \in P

\* the line a caller of from_str means: its argument without the final CRLF
LineOf(input) == Take(input, Len(input) - 2)

\* the ways to cut L into a flag part L[1..i], a username L[i+1..j] and a
\* forwarding part L[j+1..]: the flag part is empty, or "/W" and one or more
\* spaces, or a bare "/W" that ends the line; the username is made of the
\* allowed characters; the forwarding part is empty or "@" and any
\* characters of a line
Cuts(L) ==
    { ij \in (0..Len(L)) \X (0..Len(L)) :
        LET i == ij[1]
            j == ij[2]
        IN  /\ i <= j
            /\ \/ i = 0
               \/ /\ StartsWith(Take(L, i), << "/", "W" >>)
                  /\ AllIn(SubSeq(L, 3, i), {" "})
                  /\ i >= 3 \/ i = Len(L)
            /\ AllIn(SubSeq(L, i + 1, j), USERNAME_ALLOWED_CHARS)
            /\ j < Len(L) => (L[j + 1] = "@" /\ LF \notin { L[n] : n \in (j + 1)..Len(L) }) }

\* the request the grammar reads from L cut at i and j
Meant(L, i, j) ==
    Request(i > 0,
            IF j > i THEN Some(SubSeq(L, i + 1, j)) ELSE None,
            IF j < Len(L) THEN Some(Drop(L, j)) ELSE None)

\* C12: for every line of the grammar [flag] [username] [@ and any
\* characters] followed by CRLF, Request::from_str returns Ok with verbose =
\* the flag was there, user = the username or absent, forwarding = the part
\* from "@" on or absent.
C12_ParseTotal ==
    (call.fn = "from_str" /\ call.done /\ EndsWith(call.arg, CRLF)) =>
        \A ij \in Cuts(LineOf(call.arg)) :
            /\ call.ret.kind = "Ok"
            /\ call.ret.req = Meant(LineOf(call.arg), ij[1], ij[2])

\* C13: Request::from_str returns an error for every input that does not
\* end in CRLF, for every line where "/W" is directly followed by a character
\* that is not a space, and for every line that is not wholly made of the
\* optional flag, the optional username and the optional "@" part; a request
\* it returns is the request of the whole line, never of a prefix of it.
C13_RejectsMalformed ==
    (call.fn = "from_str" /\ call.done) =>
        LET L == LineOf(call.arg)
        IN  /\ ~EndsWith(call.arg, CRLF) => call.ret.kind = "Err"
            /\ (EndsWith(call.arg, CRLF) /\ Len(L) >= 3
                   /\ StartsWith(L, << "/", "W" >>) /\ L[3] # " ") =>
                  call.ret.kind = "Err"
            /\ (EndsWith(call.arg, CRLF) /\ Cuts(L) = {}) => call.ret.kind = "Err"
            /\ call.ret.kind # "Err" =>
                  /\ call.ret.kind = "Ok"
                  /\ \E ij \in Cuts(L) : call.ret.req = Meant(L, ij[1], ij[2])

\* from_str returned an error for a line that ends in CRLF and is a request
\* of the grammar followed by one more character
C13_Witness ==
    /\ call.fn = "from_str" /\ call.done /\ EndsWith(call.arg, CRLF)
    /\ Len(LineOf(call.arg)) >= 2
    /\ Cuts(LineOf(call.arg)) = {}
    /\ Cuts(Take(LineOf(call.arg), Len(LineOf(call.arg)) - 1)) # {}
    /\ call.ret.kind = "Err"

\* toml::from_str has returned a directory
Decoded == call.fn = "toml_from_str" /\ call.done /\ call.ret.ok

\* the info and long_info texts of entry e as the file has them
SourceInfo(e) == IF e.shape = "String" THEN Some(e.text) ELSE e.info
SourceLong(e) == e.long_info

\* text ends with CRLF and each of its '\n' follows a '\r'
CrlfOnly(text) ==
    /\ EndsWith(text, CRLF)
    /\ \A i \in 1..Len(text) : text[i] = LF => (i > 1 /\ text[i - 1] = CR)

\* what C14 says of one field: its source text and its decoded text
C14_Field(src, got) ==
    /\ got.some = src.some
    /\ got.some =>
          /\ CrlfOnly(got.v)
          /\ Position(src.v, {LF}) = 0 => got.v = src.v \o CRLF

\* C14: in a decoded directory, each present info and long_info of a user
\* whose fix_crlf is true ends with CRLF and has every '\n' right after a
\* '\r', whatever line breaks the source text had; a source text without
\* '\n' is the decoded text without its final CRLF.
C14_CrlfNormalised ==
    Decoded =>
        \A name \in DOMAIN call.ret.users.users :
            LET user == call.ret.users.users[name]
                e    == call.arg.users[name]
            IN  user.fix_crlf =>
                    /\ C14_Field(SourceInfo(e), user.info)
                    /\ C14_Field(SourceLong(e), user.long_info)

\* a record with fix-crlf left out was decoded whose info had a bare '\n'
\* inside and whose long_info had no line break at all
C14_Witness ==
    /\ Decoded
    /\ \E name \in DOMAIN call.ret.users.users :
           LET user == call.ret.users.users[name]
               e    == call.arg.users[name]
           IN  /\ e.shape = "User" /\ ~e.fix_crlf.some /\ user.fix_crlf
               /\ e.info.some /\ e.long_info.some
               /\ \E i \in 1..(Len(e.info.v) - 1) :
                      e.info.v[i] = LF /\ (i = 1 \/ e.info.v[i - 1] # CR)
               /\ ~CrlfOnly(e.info.v \o CRLF)
               /\ CrlfOnly(user.info.v)
               /\ Position(e.long_info.v, {LF}) = 0
               /\ user.long_info.v = e.long_info.v \o CRLF

\* C15 as stated: for every decoded user, info() and long_info() are not
\* both empty unless both source fields are absent, and they return the
\* same text when exactly one source field is present.
C15_AccessorsAsStated ==
    Decoded =>
        \A name \in DOMAIN call.ret.users.users :
            LET user == call.ret.users.users[name]
                e    == call.arg.users[name]
            IN  /\ (info(user) = << >> /\ long_info(user) = << >>) =>
                      (~SourceInfo(e).some /\ ~SourceLong(e).some)
                /\ (SourceInfo(e).some # SourceLong(e).some) =>
                      info(user) = long_info(user)

\* C15, amended: for every decoded user, info() and long_info() are both
\* empty only when both source fields are absent, or when fix_crlf is false
\* and every source field that is present is the empty text; and they
\* return the same text when exactly one source field is present.
C15_Accessors ==
    Decoded =>
        \A name \in DOMAIN call.ret.users.users :
            LET user == call.ret.users.users[name]
                e    == call.arg.users[name]
            IN  /\ (info(user) = << >> /\ long_info(user) = << >>) =>
                      \/ ~SourceInfo(e).some /\ ~SourceLong(e).some
                      \/ /\ ~user.fix_crlf
                         /\ SourceInfo(e).some => SourceInfo(e).v = << >>
                         /\ SourceLong(e).some => SourceLong(e).v = << >>
                /\ (SourceInfo(e).some # SourceLong(e).some) =>
                      info(user) = long_info(user)

\* a user with only long_info in the file was decoded, and both accessors
\* return its text
C15_Witness ==
    /\ Decoded
    /\ \E name \in DOMAIN call.ret.users.users :
           LET user == call.ret.users.users[name]
               e    == call.arg.users[name]
           IN  /\ ~SourceInfo(e).some /\ SourceLong(e).some
               /\ info(user) = user.long_info.v
               /\ long_info(user) = user.long_info.v
               /\ info(user) # << >>

\* the loop is at its select! with a termination signal ready
TermReady == proc = "running" /\ main = "select" /\ pending \cap TermSignals # {}

\* C16: while the loop waits in Running with a termination signal ready, it
\* neither accepts a connection, nor spawns a handler, nor spawns a reload
\* task: the step it takes is the one to Stopped.
C16_TerminationFirst ==
    [][TermReady =>
          /\ main' \in { "select", "stopped" }
          /\ accepted' = accepted
          /\ Len(conns') = Len(conns)
          /\ Len(reloads') = Len(reloads)]_vars

\* C17: Config::get never has to wait: whenever the accept loop is at its
\* config.get().await, the read lock is granted at once, whatever the reload
\* tasks are doing.
C17_ReadsNeverWait ==
    (proc = "running" /\ main = "get") => Config_get_ready

\* the handler's client sends a '\n', or 1024 bytes, or closes its side
Cooperative(k) ==
    k.eof \/ Len(k.stream) >= 1024 \/ Position(k.stream, {LF}) # 0

\* the handler ended by itself: its reply was flushed, or it failed
Finished(k) == k.result \in { "ok", "panicked", "io_error" }

\* a handler is waiting for a client that does none of the three
Stalled(c) ==
    c \in DOMAIN conns /\ conns[c].result = "pending" /\ ~Cooperative(conns[c])

Loaded(r) == toml_from_str(reloads[r].source).users

\* C19: once two reload tasks have both succeeded, the store holds the
\* directory decoded from the file the later-spawned task read; the set of an
\* earlier-spawned task never replaces what a later-spawned task has set.
C19_NewestReloadWins ==
    \A r1, r2 \in DOMAIN reloads :
        (r1 < r2 /\ reloads[r1].result = "ok" /\ reloads[r2].result = "ok") =>
            store = Loaded(r2)

\* the directory with enable_index set to index and name's unlisted flag
\* set to unlisted
WithControls(users, name, index, unlisted) ==
    Users(index, [users.users EXCEPT ![name].unlisted = unlisted])

\* C20: the reply to a request that names a user of the directory and has no
\* forwarding part is that user's info() or long_info() text, and it is the
\* reply the same request gets from the directory with any other value of
\* enable_index and of the user's unlisted flag.
C20_LookupIgnoresListing ==
    \A c \in DOMAIN conns :
        LET k == conns[c]
            q == ReqOf(k)
        IN  (Replied(k) /\ q.user.some /\ ~q.forwarding.some
               /\ q.user.v \in DOMAIN k.snapshot.users) =>
                /\ k.output \in { info(k.snapshot.users[q.user.v]),
                                  long_info(k.snapshot.users[q.user.v]) }
                /\ \A index, unlisted \in BOOLEAN :
                   \A order \in Orders(DOMAIN k.snapshot.users) :
                       k.output = reply(WithControls(k.snapshot, q.user.v, index, unlisted),
                                        q, order)

\* a query of an unlisted user of a directory whose index is disabled was
\* answered with the user's text
C20_Witness ==
    \E c \in DOMAIN conns :
        LET k == conns[c]
            q == ReqOf(k)
        IN  /\ Replied(k) /\ q.user.some /\ ~q.forwarding.some
            /\ q.user.v \in DOMAIN k.snapshot.users
            /\ k.snapshot.users[q.user.v].unlisted
            /\ ~k.snapshot.enable_index
            /\ k.output = info(k.snapshot.users[q.user.v])
            /\ k.output \notin { << >>, TextUserNotFound, TextListDenied }

\* C21: Request::from_str never reaches its unreachable!() arm: for every
\* input, whenever the inner parse succeeds on the input without its final
\* CRLF, the input that parse leaves over is empty, so from_str returns
\* either a Request or an error and never panics.
C21_NeverUnreachable ==
    (call.fn = "from_str" /\ call.done) =>
        /\ call.ret.kind \in { "Ok", "Err" }
        /\ EndsWith(call.arg, CRLF) =>
               LET r == parse(LineOf(call.arg))
               IN  r.ok => r.rest = << >>

\* from_str returned a Request after the inner parse succeeded through its
\* second alternative, with a user name and a forwarding part
C21_Witness ==
    /\ call.fn = "from_str" /\ call.done /\ EndsWith(call.arg, CRLF)
    /\ parse(LineOf(call.arg)).ok
    /\ call.ret.kind = "Ok"
    /\ call.ret.req.user.some /\ call.ret.req.forwarding.some

====
